---------------------------- MODULE Spec2Model ----------------------------
(***************************************************************************)
(* A model of pathtemplater.PathTemplater (src/pathtemplater/              *)
(* pathtemplater.py).                                                       *)
(*                                                                         *)
(* Strings are sequences of one-character strings, so that the path        *)
(* splitting of pathlib and the field parsing of string.Formatter are      *)
(* computed character by character, as the library computes them.          *)
(* Python's None is the one-element sequence <<"None">>, which is no       *)
(* string of the model because "None" is not a single character.           *)
(***************************************************************************)
EXTENDS Integers, Sequences, FiniteSets, TLC

None == <<"None">>

\* Top-directory names, alternate-suffix names and method names are never
\* taken apart, so they are plain TLA+ strings; for them None is this one.
NoName == "None"

(***************************************************************************)
(* str helpers                                                             *)
(***************************************************************************)
StartsWith(s, p) == Len(p) <= Len(s) /\ SubSeq(s, 1, Len(p)) = p

EndsWith(s, p) == Len(p) <= Len(s) /\ SubSeq(s, Len(s) - Len(p) + 1, Len(s)) = p

\* The characters of s from position i (1-based) to the end.
From(s, i) == SubSeq(s, i, Len(s))

\* First position >= i at which character c occurs in s, 0 when there is none.
RECURSIVE Find(_, _, _)
Find(s, c, i) ==
    IF i > Len(s) THEN 0
    ELSE IF s[i] = c THEN i
    ELSE Find(s, c, i + 1)

\* str.rfind for one character: the last position of c in s, 0 when none.
RECURSIVE RFind(_, _, _)
RFind(s, c, i) ==
    IF i < 1 THEN 0
    ELSE IF s[i] = c THEN i
    ELSE RFind(s, c, i - 1)

\* str.lstrip(c)
RECURSIVE LStrip(_, _)
LStrip(s, c) == IF s # <<>> /\ s[1] = c THEN LStrip(Tail(s), c) ELSE s

\* sep.join(parts)
RECURSIVE Join(_, _)
Join(parts, sep) ==
    IF parts = <<>> THEN <<>>
    ELSE IF Len(parts) = 1 THEN parts[1]
    ELSE parts[1] \o sep \o Join(Tail(parts), sep)

\* str.split(c): the pieces of s between the occurrences of character c.
RECURSIVE Split(_, _)
Split(s, c) ==
    LET i == Find(s, c, 1)
    IN  IF i = 0 THEN <<s>>
        ELSE <<SubSeq(s, 1, i - 1)>> \o Split(From(s, i + 1), c)

\* s.replace(old, ""): every non-overlapping occurrence of old, found from the
\* left, is removed; with old = "" the string is returned as it is.
RECURSIVE ReplaceAll(_, _)
ReplaceAll(s, old) ==
    IF old = <<>> \/ s = <<>> THEN s
    ELSE IF StartsWith(s, old) THEN ReplaceAll(From(s, Len(old) + 1), old)
    ELSE <<s[1]>> \o ReplaceAll(Tail(s), old)

(***************************************************************************)
(* pathlib.PurePosixPath, as far as create() and use() call it.  A path is *)
(* its root ("", "/" or "//") and its parts; the root is not one of parts. *)
(***************************************************************************)
\* _PosixFlavour.splitroot: the root of a path string.
PathRoot(s) ==
    IF s # <<>> /\ s[1] = "/"
    THEN IF Len(s) - Len(LStrip(s, "/")) = 2 THEN <<"/", "/">> ELSE <<"/">>
    ELSE <<>>

\* pathlib.Path(s): empty and "." components are dropped.
ParsePath(s) ==
    [root  |-> PathRoot(s),
     parts |-> SelectSeq(Split(s, "/"), LAMBDA c : c # <<>> /\ c # <<".">>)]

\* str(path)
PathStr(p) ==
    IF p.root = <<>> /\ p.parts = <<>> THEN <<".">>
    ELSE p.root \o Join(p.parts, <<"/">>)

\* path / other, for another path: a rooted right operand replaces the left.
PathJoin(p, q) ==
    IF q.root # <<>> THEN q
    ELSE [root |-> p.root, parts |-> p.parts \o q.parts]

\* path.parent
PathParent(p) ==
    IF p.parts = <<>> THEN p
    ELSE [root |-> p.root, parts |-> SubSeq(p.parts, 1, Len(p.parts) - 1)]

\* path.name
PathName(p) == IF p.parts = <<>> THEN <<>> ELSE p.parts[Len(p.parts)]

\* path.suffix: from the last dot of the name, unless that dot is the first
\* or the last character.
NameSuffix(name) ==
    LET i == RFind(name, ".", Len(name))
    IN  IF 1 < i /\ i < Len(name) THEN From(name, i) ELSE <<>>

\* "".join(path.suffixes): nothing when the name ends with a dot; otherwise
\* everything from the first dot that follows the leading dots.
NameSuffixes(name) ==
    IF name # <<>> /\ name[Len(name)] = "." THEN <<>>
    ELSE LET stripped == LStrip(name, ".")
             i == Find(stripped, ".", 1)
         IN  IF i = 0 THEN <<>> ELSE From(stripped, i)

\* Whether path.with_suffix(suffix) raises ValueError.
WithSuffixInvalid(p, suffix) ==
    \/ Find(suffix, "/", 1) # 0
    \/ suffix # <<>> /\ suffix[1] # "."
    \/ suffix = <<".">>
    \/ PathName(p) = <<>>

\* path.with_suffix(suffix), when it does not raise: the last suffix of the
\* name is replaced by suffix.
WithSuffix(p, suffix) ==
    LET name == PathName(p)
        old  == NameSuffix(name)
        new  == SubSeq(name, 1, Len(name) - Len(old)) \o suffix
    IN  [root  |-> p.root,
         parts |-> SubSeq(p.parts, 1, Len(p.parts) - 1) \o <<new>>]

(***************************************************************************)
(* Template substitution.  string.Formatter().vformat(template, (), dict)  *)
(* with a _PartialDict is the partial substitution of use(); str.format    *)
(* with keyword arguments is the full substitution of format().  Both scan *)
(* the same markup.  A result is a record: st is "ok" with the string in   *)
(* v, or the name of the exception raised, with the missing key in v for   *)
(* a KeyError.                                                             *)
(* "Unmodelled" marks markup outside the modelled part of the format       *)
(* language (conversions, attribute access, chained indices, alignment).   *)
(***************************************************************************)
Ok(v) == [st |-> "ok", v |-> v]

Raise(e) == [st |-> e, v |-> <<>>]

Digits == {"0", "1", "2", "3", "4", "5", "6", "7", "8", "9"}

DigitVal(c) ==
    CASE c = "0" -> 0 [] c = "1" -> 1 [] c = "2" -> 2 [] c = "3" -> 3
      [] c = "4" -> 4 [] c = "5" -> 5 [] c = "6" -> 6 [] c = "7" -> 7
      [] c = "8" -> 8 [] c = "9" -> 9

IsDigits(s) == s # <<>> /\ \A i \in 1..Len(s) : s[i] \in Digits

RECURSIVE ToInt(_)
ToInt(s) ==
    IF s = <<>> THEN 0
    ELSE 10 * ToInt(SubSeq(s, 1, Len(s) - 1)) + DigitVal(s[Len(s)])

\* _AsIsFormat.__getitem__: "{" + key + "[" + index + "]}"; the index the
\* formatter hands over is an int when it is written in digits, and adding an
\* int to a str raises TypeError.
AsIsGetItem(key, index) ==
    IF IsDigits(index) THEN Raise("TypeError")
    ELSE Ok(<<"{">> \o key \o <<"[">> \o index \o <<"]", "}">>)

\* _AsIsFormat.__format__: the placeholder as it was written.
AsIsFormat(key, format_spec) ==
    <<"{">> \o key
        \o (IF format_spec # <<>> THEN <<":">> \o format_spec ELSE <<>>)
        \o <<"}">>

\* str.__getitem__ with the index of a placeholder.
StrGetItem(s, index) ==
    IF ~IsDigits(index) THEN Raise("TypeError")
    ELSE IF ToInt(index) < Len(s) THEN Ok(<<s[ToInt(index) + 1]>>)
    ELSE Raise("IndexError")

\* format(s, format_spec) for a str s: "" and "s" leave it as it is, ".N" and
\* ".Ns" keep its first N characters.
StrFormat(s, format_spec) ==
    LET spec == IF format_spec # <<>> /\ format_spec[Len(format_spec)] = "s"
                THEN SubSeq(format_spec, 1, Len(format_spec) - 1)
                ELSE format_spec
    IN  IF spec = <<>> THEN Ok(s)
        ELSE IF spec[1] = "." /\ IsDigits(Tail(spec))
        THEN Ok(SubSeq(s, 1, IF ToInt(Tail(spec)) < Len(s)
                             THEN ToInt(Tail(spec)) ELSE Len(s)))
        ELSE Raise("Unmodelled")

\* The end of a field name: the position of the "}", ":" or "!" that ends it,
\* 0 when the markup is malformed.  A "[" skips to the next "]".
RECURSIVE FieldNameEnd(_, _)
FieldNameEnd(t, i) ==
    IF i > Len(t) THEN 0
    ELSE IF t[i] = "{" THEN 0
    ELSE IF t[i] \in {"}", ":", "!"} THEN i
    ELSE IF t[i] = "["
    THEN LET j == Find(t, "]", i + 1)
         IN  IF j = 0 THEN 0 ELSE FieldNameEnd(t, j + 1)
    ELSE FieldNameEnd(t, i + 1)

\* The end of a format spec: the position of the "}" matching the field's
\* "{", nested braces counted; 0 when there is none.
RECURSIVE SpecEnd(_, _, _)
SpecEnd(t, i, count) ==
    IF i > Len(t) THEN 0
    ELSE IF t[i] = "{" THEN SpecEnd(t, i + 1, count + 1)
    ELSE IF t[i] = "}"
    THEN IF count = 1 THEN i ELSE SpecEnd(t, i + 1, count - 1)
    ELSE SpecEnd(t, i + 1, count)

\* The first part of a field name: up to the first "." or "[".
RECURSIVE FieldFirst(_)
FieldFirst(name) ==
    IF name = <<>> \/ name[1] \in {".", "["} THEN <<>>
    ELSE <<name[1]>> \o FieldFirst(Tail(name))

\* Formatter.get_field: the value of the first part of the field name looked
\* up in the mapping d (a _PartialDict when partial: a missing key gives an
\* _AsIsFormat; a plain dict otherwise: a missing key raises KeyError), then
\* its accessor applied.  An "ok" result carries asis = TRUE when the object to
\* format is still the _AsIsFormat.
GetField(name, d, partial) ==
    LET first == FieldFirst(name)
        rest  == From(name, Len(first) + 1)
        bound == first \in DOMAIN d
        Taken(close, item) ==
            IF close < Len(rest) /\ item.st = "ok"
            THEN \* what follows the "]" is looked at after the item is taken
                 [st |-> IF rest[close + 1] \in {".", "["}
                         THEN "Unmodelled" ELSE "ValueError",
                  v |-> <<>>, asis |-> FALSE]
            ELSE [st |-> item.st, v |-> item.v, asis |-> FALSE]
        Indexed(close, index) ==
            IF close = 0 \/ index = <<>>
            THEN [st |-> "ValueError", v |-> <<>>, asis |-> FALSE]
            ELSE Taken(close, IF bound THEN StrGetItem(d[first], index)
                              ELSE AsIsGetItem(first, index))
    IN  IF name = <<>> \/ IsDigits(first) \/ (~partial /\ first = <<>>)
        THEN \* a positional field, and use() and format() pass no positions
             [st |-> "IndexError", v |-> <<>>, asis |-> FALSE]
        ELSE IF ~bound /\ ~partial
        THEN [st |-> "KeyError", v |-> first, asis |-> FALSE]
        ELSE IF rest = <<>>
        THEN [st |-> "ok", v |-> IF bound THEN d[first] ELSE first,
              asis |-> ~bound]
        ELSE IF rest[1] = "."
        THEN [st |-> IF Len(rest) = 1 \/ rest[2] \in {".", "["}
                     THEN "ValueError" ELSE "AttributeError",
              v |-> <<>>, asis |-> FALSE]
        ELSE Indexed(Find(rest, "]", 2),
                     SubSeq(rest, 2, Find(rest, "]", 2) - 1))

\* The substitution itself.  depth is the recursion budget for format specs
\* that contain fields: Formatter.vformat starts at 2 and fails below 0,
\* str.format starts at 2 and fails at 0.
RECURSIVE VFormat(_, _, _, _)
VFormat(s, d, partial, depth) ==
    IF (partial /\ depth < 0) \/ (~partial /\ depth <= 0)
    THEN Raise("ValueError")
    ELSE IF s = <<>> THEN Ok(<<>>)
    ELSE IF s[1] \notin {"{", "}"} \/ (Len(s) >= 2 /\ s[2] = s[1])
    THEN \* literal text, or a doubled brace that stands for one brace
         LET Literal(rest) ==
                 IF rest.st = "ok" THEN Ok(<<s[1]>> \o rest.v) ELSE rest
         IN  Literal(VFormat(From(s, IF s[1] \in {"{", "}"} THEN 3 ELSE 2),
                             d, partial, depth))
    ELSE IF s[1] = "}" \/ Len(s) = 1
    THEN Raise("ValueError")    \* a single brace
    ELSE LET t       == Tail(s)
             k       == FieldNameEnd(t, 1)
             e       == IF t[k] = ":" THEN SpecEnd(t, k + 1, 1) ELSE k
             name    == SubSeq(t, 1, k - 1)
             rawspec == IF t[k] = ":" THEN SubSeq(t, k + 1, e - 1) ELSE <<>>
             Result(field, rest) ==
                 IF field.st # "ok" THEN field
                 ELSE IF rest.st = "ok" THEN Ok(field.v \o rest.v) ELSE rest
             Field(obj, spec) ==
                 IF obj.st # "ok" THEN [st |-> obj.st, v |-> obj.v]
                 ELSE IF spec.st # "ok" THEN spec
                 ELSE Result(IF obj.asis THEN Ok(AsIsFormat(obj.v, spec.v))
                             ELSE StrFormat(obj.v, spec.v),
                             VFormat(From(t, e + 1), d, partial, depth))
         IN  IF k = 0 THEN Raise("ValueError")
             ELSE IF t[k] = "!" THEN Raise("Unmodelled")
             ELSE IF e = 0 THEN Raise("ValueError")
             ELSE Field(GetField(name, d, partial),
                        IF ~partial /\ Find(rawspec, "{", 1) = 0
                        THEN Ok(rawspec)   \* str.format expands a spec only
                                           \* when it holds a field
                        ELSE VFormat(rawspec, d, partial, depth - 1))

\* string.Formatter().vformat(template, (), _PartialDict(d))
PartialFormat(template, d) == VFormat(template, d, TRUE, 2)

\* template.format(**d)
FullFormat(template, d) == VFormat(template, d, FALSE, 2)

(***************************************************************************)
(* The PathTemplater object.                                               *)
(*                                                                         *)
(* The heap: objs[x] holds the attributes of instance x, and its           *)
(* format_dict attribute is a reference into dicts, because the format     *)
(* dictionary is a mutable object of its own that a copy may or may not    *)
(* share.  chain[x] records how x was derived.  last is the outcome of the *)
(* latest call.                                                            *)
(*                                                                         *)
(* The operations are written on instance values iv = [f, d, g]: the       *)
(* attributes, the contents of the format dictionary, and the derivation   *)
(* record.  An operation returns [st, v, iv]: st is "ok" and iv the        *)
(* instance returned, or st is the exception raised and v its message or   *)
(* key.  The actions read an instance off the heap, apply the operation    *)
(* and store the instance it returns.                                      *)
(***************************************************************************)
VARIABLES objs, dicts, chain, last

vars == <<objs, dicts, chain, last>>

\* Names, values and file name pieces are strings; Python values of other
\* types that reach an attribute are tagged.
PyNone == [t |-> "NoneType", s |-> <<>>]

PyStr(s) == [t |-> "str", s |-> s]

PyPath(p) == [t |-> "Path", s |-> PathStr(p)]

PyDict == [t |-> "dict", s |-> <<>>]

MsgNotInitialized == <<"Cannot use() PathTemplater - not fully initialized">>

MsgCreate == <<"Cannot use create() with initialized PathTemplater">>

MsgCreateFromparts ==
    <<"Cannot use create_fromparts() with initialized PathTemplater">>

MsgCallableExpand == <<"Cannot use callable with expand()-style format">>

\* The message of line 582 ends with the name looked up, which CallMethod
\* appends.
MsgNoFunction == <<"Preset value provided but could not find function">>

\* w tells whether warnings.warn was called on the way.
Return(iv) == [st |-> "ok", v |-> <<>>, iv |-> iv, w |-> FALSE]

Throw(e, msg, iv) == [st |-> e, v |-> msg, iv |-> iv, w |-> FALSE]

\* dict.update: the entries of kw replace and extend those of d.
Update(d, kw) == kw @@ d

\* An ordered list of (key, value) pairs, as keyword arguments and the items
\* of a dict literal are, turned into the mapping it denotes.
RECURSIVE AsDict(_)
AsDict(items) ==
    IF items = <<>> THEN <<>>
    ELSE Update(AsDict(SubSeq(items, 1, Len(items) - 1)),
                items[Len(items)][1] :> items[Len(items)][2])

get_settopdir_methodname(topdir_name) == topdir_name \o "dir"

get_setfilesuffix_methodname(altsuffix_name) == altsuffix_name \o "file"

\* _reset_topdir, _reset_altsuffix and _reset_dfs: the attributes right after
\* construction starts.
EmptyObject ==
    [topdir_name       |-> NoName,
     topdir_value      |-> None,
     altsuffix_name    |-> NoName,
     altsuffix_value   |-> <<>>,
     altsuffix_append  |-> FALSE,
     directory         |-> PyNone,
     filename_template |-> None,
     suffix            |-> <<>>,
     filename_affix    |-> <<>>,
     format_dict       |-> 0,
     methods           |-> <<>>]

is_initialized(f) ==
    /\ f.topdir_name # NoName
    /\ f.directory # PyNone
    /\ f.filename_template # None

(***************************************************************************)
(* Derivations.  Each returns a copy of the instance it is called on; the  *)
(* copy is what copy.deepcopy makes, and the actions below give it a       *)
(* format dictionary of its own (DeepCopyRef).                             *)
(***************************************************************************)
Warn(r) == [r EXCEPT !.w = TRUE]

\* create_fromparts without the test of line 480.
create_fromparts_unchecked(iv, directory, filename_template, suffix, filename_affix, format_dict) ==
    Return([iv EXCEPT !.f.directory = directory,
                      !.f.filename_template = filename_template,
                      !.f.suffix = suffix,
                      !.f.filename_affix = filename_affix,
                      !.d = Update(iv.d, format_dict),
                      !.g.created = TRUE])

create_fromparts(iv, directory, filename_template, suffix, filename_affix, format_dict) ==
    IF is_initialized(iv.f)
    THEN Throw("ValueError", MsgCreateFromparts, iv)
    ELSE Return([iv EXCEPT !.f.directory = directory,
                           !.f.filename_template = filename_template,
                           !.f.suffix = suffix,
                           !.f.filename_affix = filename_affix,
                           !.d = Update(iv.d, format_dict),
                           !.g.created = TRUE])

\* The three pieces create() splits a path string into.
SplitDirectory(path) == PyPath(PathParent(ParsePath(path)))

SplitSuffix(path) == NameSuffixes(PathName(ParsePath(path)))

SplitTemplate(path) ==
    ReplaceAll(PathName(ParsePath(path)), SplitSuffix(path))

create(iv, path, filename_affix, format_dict) ==
    IF is_initialized(iv.f)
    THEN Throw("ValueError", MsgCreate, iv)
    ELSE create_fromparts(iv, SplitDirectory(path), SplitTemplate(path),
                          SplitSuffix(path), filename_affix, format_dict)

\* set_topdir that takes the name and leaves the value.
set_topdir_name(iv, topdir_name, topdir_value) ==
    Return([iv EXCEPT !.f.topdir_name = topdir_name,
                      !.g.sel = topdir_name])

set_topdir(iv, topdir_name, topdir_value) ==
    LET r == Return([iv EXCEPT !.f.topdir_name = topdir_name,
                               !.f.topdir_value = topdir_value,
                               !.g.sel = topdir_name])
    IN  IF iv.f.topdir_name = topdir_name THEN Warn(r) ELSE r

add_to_dict(iv, kwargs) ==
    IF DOMAIN kwargs = {} THEN Warn(Return(iv))
    ELSE Return([iv EXCEPT !.d = Update(iv.d, kwargs)])

new_directory(iv, new_dir) == Return([iv EXCEPT !.f.directory = new_dir])

clear_dict(iv) == new_directory(iv, PyDict)

new_template(iv, new_tmpl) ==
    Return([iv EXCEPT !.f.filename_template = new_tmpl])

new_affix(iv, affix) == Return([iv EXCEPT !.f.filename_affix = affix])

remove_affix(iv) == new_affix(iv, <<>>)

\* filename_template + filename_affix; None + str raises TypeError.
get_combined_template_affix(f) ==
    IF f.filename_template = None \/ f.filename_affix = None
    THEN Raise("TypeError")
    ELSE Ok(f.filename_template \o f.filename_affix)

apply_affix(iv) ==
    LET c == get_combined_template_affix(iv.f)
    IN  IF c.st # "ok" THEN Throw(c.st, <<>>, iv)
        ELSE Return([iv EXCEPT !.f.filename_template = c.v,
                               !.f.filename_affix = <<>>])

new_suffix(iv, suffix) == Return([iv EXCEPT !.f.suffix = suffix])

no_suffix(iv) == new_suffix(iv, None)

reset_altsuffix(iv) ==
    Return([iv EXCEPT !.f.altsuffix_name = NoName,
                      !.f.altsuffix_value = <<>>,
                      !.f.altsuffix_append = FALSE])

(***************************************************************************)
(* Rendering.  A rendering returns [st, v]: "ok" and the string (for       *)
(* expand, the list of strings), or the exception and its message or key.  *)
(***************************************************************************)
\* pathlib.Path(topdir_value) / directory
get_directory_aspathlib(f) ==
    IF ~is_initialized(f)
    THEN [st |-> "ValueError", v |-> MsgNotInitialized]
    ELSE IF f.topdir_value = None \/ f.directory.t \notin {"str", "Path"}
    THEN Raise("TypeError")
    ELSE Ok(PathJoin(ParsePath(f.topdir_value), ParsePath(f.directory.s)))

\* The suffix use() goes on with: the alternate suffix when one is set,
\* after the suffix when it is an appending one; the suffix otherwise.
\* None + str raises TypeError.
EffectiveSuffix(f) ==
    IF f.altsuffix_name # NoName
    THEN IF f.altsuffix_append
         THEN IF f.suffix = None THEN Raise("TypeError")
              ELSE Ok(f.suffix \o f.altsuffix_value)
         ELSE Ok(f.altsuffix_value)
    ELSE Ok(f.suffix)

\* The path of use() before the placeholders are filled in.
UseTemplate(f) ==
    LET Attach(path, suffix) ==
            LET new == NameSuffixes(PathName(path)) \o suffix.v
            IN  IF suffix.st # "ok" THEN suffix
                ELSE IF suffix.v = None \/ suffix.v = <<>>
                THEN Ok(PathStr(path))
                ELSE IF WithSuffixInvalid(path, new) THEN Raise("ValueError")
                ELSE Ok(PathStr(WithSuffix(path, new)))
        Build(dir, combined) ==
            IF dir.st # "ok" THEN dir
            ELSE IF combined.st # "ok" THEN combined
            ELSE Attach(PathJoin(dir.v, ParsePath(combined.v)),
                        EffectiveSuffix(f))
    IN  Build(get_directory_aspathlib(f), get_combined_template_affix(f))

use(iv) ==
    LET Fill(template) ==
            IF template.st # "ok" THEN template
            ELSE PartialFormat(template.v, iv.d)
    IN  Fill(UseTemplate(iv.f))

pformat(iv, kwargs) == use(add_to_dict(iv, kwargs).iv)

format(iv, kwargs) ==
    LET Fill(path) ==
            IF path.st # "ok" THEN path ELSE FullFormat(path.v, kwargs)
    IN  Fill(use(iv))

\* The keys a substitution of template looks up (_TrackingPartialDict).
RECURSIVE UsedItems(_)
UsedItems(s) ==
    IF s = <<>> THEN {}
    ELSE IF s[1] \notin {"{", "}"} \/ (Len(s) >= 2 /\ s[2] = s[1])
    THEN UsedItems(From(s, IF s[1] \in {"{", "}"} THEN 3 ELSE 2))
    ELSE IF s[1] = "}" \/ Len(s) = 1 THEN {}
    ELSE LET t == Tail(s)
             k == FieldNameEnd(t, 1)
             e == IF t[k] = ":" THEN SpecEnd(t, k + 1, 1) ELSE k
         IN  IF k = 0 \/ t[k] = "!" \/ e = 0 THEN {}
             ELSE {FieldFirst(SubSeq(t, 1, k - 1))}
                    \cup UsedItems(SubSeq(t, k + 1, e - 1))
                    \cup UsedItems(From(t, e + 1))

\* A removal that empties the mapping instead of removing the used keys.
PopAll(d, used) == [key \in {} |-> d[key]]

\* The mapping d without the keys in used.
Pop(d, used) == [key \in DOMAIN d \ used |-> d[key]]

apply_format(iv, kwargs) ==
    LET new  == add_to_dict(iv, kwargs).iv
        used == UsedItems(new.f.filename_template)
                  \cup UsedItems(new.f.filename_affix)
        Applied(tmpl, affix) ==
            IF tmpl.st # "ok" THEN Throw(tmpl.st, tmpl.v, iv)
            ELSE IF affix.st # "ok" THEN Throw(affix.st, affix.v, iv)
            ELSE [Return([new EXCEPT !.f.filename_template = tmpl.v,
                                     !.f.filename_affix = affix.v,
                                     !.d = Pop(new.d, used)])
                  EXCEPT !.w = (DOMAIN kwargs = {})]
    IN  Applied(IF new.f.filename_template = None THEN Raise("TypeError")
                ELSE PartialFormat(new.f.filename_template, new.d),
                IF new.f.filename_affix = None THEN Raise("TypeError")
                ELSE PartialFormat(new.f.filename_affix, new.d))

\* expand_kwargs: for each keyword its list of (key, item) pairs; a str (or
\* a value that is not iterable) stands for itself alone.
ExpandKwargs(kwargs) ==
    [i \in 1..Len(kwargs) |->
        IF kwargs[i][2].t = "list"
        THEN [j \in 1..Len(kwargs[i][2].items) |->
                 <<kwargs[i][1], kwargs[i][2].items[j]>>]
        ELSE << <<kwargs[i][1], kwargs[i][2].s>> >>]

\* [f(x) for x in xs for y in ys], as one list.
RECURSIVE Prefixed(_, _)
Prefixed(x, tuples) ==
    IF tuples = <<>> THEN <<>>
    ELSE << <<x>> \o tuples[1] >> \o Prefixed(x, Tail(tuples))

RECURSIVE PrefixedAll(_, _)
PrefixedAll(xs, tuples) ==
    IF xs = <<>> THEN <<>>
    ELSE Prefixed(xs[1], tuples) \o PrefixedAll(Tail(xs), tuples)

\* itertools.product with the first list varying fastest.
RECURSIVE ProductFirstFastest(_)
ProductFirstFastest(lists) ==
    IF lists = <<>> THEN << <<>> >>
    ELSE LET n    == Len(lists)
             rest == ProductFirstFastest(SubSeq(lists, 1, n - 1))
         IN  [i \in 1..(Len(lists[n]) * Len(rest)) |->
                 rest[((i - 1) % Len(rest)) + 1]
                   \o <<lists[n][((i - 1) \div Len(rest)) + 1]>>]

\* itertools.product(*lists): the last list varies fastest.
RECURSIVE Product(_)
Product(lists) ==
    IF lists = <<>> THEN << <<>> >>
    ELSE PrefixedAll(lists[1], Product(Tail(lists)))

\* zip(*lists): as long as the shortest list; nothing for no lists at all.
MinLen(lists) ==
    IF lists = <<>> THEN 0
    ELSE CHOOSE n \in {Len(lists[i]) : i \in 1..Len(lists)} :
            \A i \in 1..Len(lists) : n <= Len(lists[i])

Zip(lists) ==
    [j \in 1..MinLen(lists) |-> [i \in 1..Len(lists) |-> lists[i][j]]]

Combinations(combinator, lists) ==
    IF combinator = "zip" THEN Zip(lists) ELSE Product(lists)

\* The list comprehension of expand(): the strings in order, or the first
\* exception raised on the way.
RECURSIVE Collect(_)
Collect(results) ==
    IF results = <<>> THEN Ok(<<>>)
    ELSE IF results[1].st # "ok" THEN results[1]
    ELSE LET rest == Collect(Tail(results))
         IN  IF rest.st # "ok" THEN rest
             ELSE Ok(<<results[1].v>> \o rest.v)

expand(iv, combinator, partial, kwargs) ==
    LET combos == Combinations(combinator, ExpandKwargs(kwargs))
        format_func(combination) ==
            IF partial THEN use(add_to_dict(iv, combination).iv)
            ELSE LET Fill(path) ==
                         IF path.st # "ok" THEN path
                         ELSE FullFormat(path.v, combination)
                 IN  Fill(use(iv))
    IN  Collect([i \in 1..Len(combos) |-> format_func(AsDict(combos[i]))])

(***************************************************************************)
(* Shortcuts.  The constructor, add_alt_suffixes and add_preset_formats    *)
(* set bound methods as attributes of the instance; f.methods maps each    *)
(* such attribute name to what its lambda captured.  copy.deepcopy copies  *)
(* a bound method as a method bound to the copy, so a shortcut called on a *)
(* derived instance works on that instance.                                *)
(*                                                                         *)
(* A preset's fields are an ordered list of entries [param, t, s, args,    *)
(* items]: t = "scalar" with the value s, t = "call" for a ([...], {})     *)
(* tuple with the positional arguments args, t = "iter" for a collection   *)
(* with the values items.                                                  *)
(***************************************************************************)
Scalar(param, s) ==
    [param |-> param, t |-> "scalar", s |-> s, args |-> <<>>, items |-> <<>>]

CallSpec(param, args) ==
    [param |-> param, t |-> "call", s |-> <<>>, args |-> args, items |-> <<>>]

Iter(param, items) ==
    [param |-> param, t |-> "iter", s |-> <<>>, args |-> <<>>, items |-> items]

\* The scalar entries of a preset as the mapping handed to add_to_dict.
ScalarsOf(kwargs) ==
    LET scalars == SelectSeq(kwargs, LAMBDA e : e.t = "scalar")
    IN  AsDict([i \in 1..Len(scalars) |-> <<scalars[i].param, scalars[i].s>>])

\* The entries of a preset as the keyword arguments handed to expand.
ValueSetsOf(kwargs) ==
    [i \in 1..Len(kwargs) |->
        <<kwargs[i].param,
          IF kwargs[i].t = "iter"
          THEN [t |-> "list", s |-> <<>>, items |-> kwargs[i].items]
          ELSE [t |-> "str", s |-> kwargs[i].s, items |-> <<>>]>>]

\* The methods of the class a preset's call can name, with the number of
\* arguments each takes.
ClassMethods ==
    [new_directory |-> 1, new_template |-> 1, new_affix |-> 1,
     new_suffix |-> 1, remove_affix |-> 0, apply_affix |-> 0,
     no_suffix |-> 0, reset_altsuffix |-> 0, clear_dict |-> 0,
     apply_format |-> 0]

\* The other callable attributes of the class; a preset that names one of
\* them is outside the model.
OtherMethods ==
    {"create", "create_fromparts", "add_to_dict", "use",
     "format", "pformat", "expand", "expand_ends", "get_directory",
     "get_directory_aspathlib", "add_alt_suffixes", "add_preset_formats"}

\* A step of a call sequence: the next call applied to the outcome so far.
\* An exception ends the sequence; warnings add up.
Then(r, next) ==
    IF r.st # "ok" THEN r
    ELSE [next EXCEPT !.w = r.w \/ next.w]

RECURSIVE Invoke(_, _)
RECURSIVE set_altsuffix(_, _, _, _)
RECURSIVE CallMethod(_, _, _)
RECURSIVE add_to_dict_with_calls(_, _, _)

\* The call of the attribute named m of the instance: a registered shortcut.
Invoke(iv, m) ==
    LET c == iv.f.methods[m]
    IN  CASE c.kind = "set_topdir" -> set_topdir(iv, c.name, c.value)
          [] c.kind = "set_altsuffix" ->
                set_altsuffix(iv, c.name, c.value, c.append)
          [] c.kind = "preset_addtodict" ->
                add_to_dict(iv, ScalarsOf(c.kwargs))
          [] c.kind = "preset_addtodict_withcalls" ->
                add_to_dict_with_calls(iv, c.kwargs, 1)
          [] c.kind = "preset_expand" ->
                LET Strings(e) == [st |-> e.st, v |-> e.v, iv |-> iv,
                                   w |-> FALSE, strings |-> TRUE]
                IN  Strings(expand(iv, "product", TRUE,
                                   ValueSetsOf(c.kwargs)))

\* The warning of line 540 formats the undefined name suffix_name, so that
\* line raises NameError instead of warning.
set_altsuffix(iv, altsuffix_name, altsuffix_value, altsuffix_append) ==
    LET m    == get_settopdir_methodname(altsuffix_name)
        base == IF iv.f.topdir_name # altsuffix_name
                   /\ m \in DOMAIN iv.f.methods
                THEN Invoke(iv, m)
                ELSE Return(iv)
    IN  IF iv.f.altsuffix_name = altsuffix_name
        THEN Throw("NameError", <<>>, iv)
        ELSE IF base.st # "ok" THEN base
        ELSE IF "strings" \in DOMAIN base THEN Throw("AttributeError", <<>>, iv)
        ELSE [base EXCEPT !.iv.f.altsuffix_name = altsuffix_name,
                          !.iv.f.altsuffix_value = altsuffix_value,
                          !.iv.f.altsuffix_append = altsuffix_append]

\* The call of a method of the class with positional arguments.
ClassCall(iv, name, args) ==
    IF Len(args) # ClassMethods[name] THEN Throw("TypeError", <<>>, iv)
    ELSE CASE name = "new_directory" -> new_directory(iv, PyStr(args[1]))
           [] name = "new_template" -> new_template(iv, args[1])
           [] name = "new_affix" -> new_affix(iv, args[1])
           [] name = "new_suffix" -> new_suffix(iv, args[1])
           [] name = "remove_affix" -> remove_affix(iv)
           [] name = "apply_affix" -> apply_affix(iv)
           [] name = "no_suffix" -> no_suffix(iv)
           [] name = "reset_altsuffix" -> reset_altsuffix(iv)
           [] name = "clear_dict" -> clear_dict(iv)
           [] name = "apply_format" -> apply_format(iv, <<>>)

\* A lookup that passes over a name that is no attribute, where line 582
\* raises.
CallMethodSkipping(iv, name, args) ==
    IF name \in DOMAIN iv.f.methods
    THEN IF args # <<>> THEN Throw("TypeError", <<>>, iv)
         ELSE Invoke(iv, name)
    ELSE IF name \in OtherMethods THEN Throw("Unmodelled", <<>>, iv)
    ELSE IF name \notin DOMAIN ClassMethods THEN Return(iv)
    ELSE ClassCall(iv, name, args)

\* getattr(instance, name)(*args): an attribute of the instance comes before
\* a method of the class.  A name that is neither is the ValueError of line
\* 582, whose message ends with the name.
CallMethod(iv, name, args) ==
    IF name \in DOMAIN iv.f.methods
    THEN IF args # <<>> THEN Throw("TypeError", <<>>, iv)
         ELSE Invoke(iv, name)
    ELSE IF name \in OtherMethods THEN Throw("Unmodelled", <<>>, iv)
    ELSE IF name \notin DOMAIN ClassMethods
    THEN Throw("ValueError", MsgNoFunction \o <<name>>, iv)
    ELSE ClassCall(iv, name, args)

\* The fields applied one by one where they stand: a value is added to the
\* format dictionary before the calls of the fields after it.
RECURSIVE add_to_dict_with_calls_in_place(_, _, _)
add_to_dict_with_calls_in_place(iv, kwargs, i) ==
    LET Rest(r) ==
            IF r.st # "ok" THEN r
            ELSE IF "strings" \in DOMAIN r THEN Throw("Unmodelled", <<>>, iv)
            ELSE Then(r, add_to_dict_with_calls_in_place(r.iv, kwargs, i + 1))
    IN  IF i > Len(kwargs) THEN Return(iv)
        ELSE IF kwargs[i].t # "call"
        THEN Rest(add_to_dict(iv, kwargs[i].param :> kwargs[i].s))
        ELSE Rest(CallMethod(iv, kwargs[i].param, kwargs[i].args))

\* _add_to_dict_with_calls from entry i on: the calls in the order of the
\* entries, each on the instance the one before returned, then add_to_dict
\* with the entries that are not calls, when there are any.
add_to_dict_with_calls(iv, kwargs, i) ==
    IF i > Len(kwargs)
    THEN IF DOMAIN ScalarsOf(kwargs) = {} THEN Return(iv)
         ELSE add_to_dict(iv, ScalarsOf(kwargs))
    ELSE IF kwargs[i].t # "call"
    THEN add_to_dict_with_calls(iv, kwargs, i + 1)
    ELSE LET r == CallMethod(iv, kwargs[i].param, kwargs[i].args)
         IN  IF r.st # "ok" THEN r
             ELSE IF "strings" \in DOMAIN r
             THEN Throw("Unmodelled", <<>>, iv)
             ELSE Then(r, add_to_dict_with_calls(r.iv, kwargs, i + 1))

(***************************************************************************)
(* Construction and registration.  The arguments are ordered lists of      *)
(* (name, value) pairs, as the items of the dicts passed are.              *)
(***************************************************************************)
\* add_alt_suffixes, from pair i on: a value that starts with "+" appends.
\* Taking value[0] of an empty value raises IndexError.
RECURSIVE add_alt_suffixes(_, _, _)
add_alt_suffixes(methods, alt_suffixes, i) ==
    IF i > Len(alt_suffixes) THEN [st |-> "ok", v |-> <<>>, methods |-> methods]
    ELSE LET name   == alt_suffixes[i][1]
             value  == alt_suffixes[i][2]
             append == value[1] = "+"
             method == [kind   |-> "set_altsuffix",
                        name   |-> name,
                        value  |-> IF append THEN Tail(value) ELSE value,
                        append |-> append]
         IN  IF value = <<>>
             THEN [st |-> "IndexError", v |-> <<>>, methods |-> methods]
             ELSE add_alt_suffixes(
                      (get_setfilesuffix_methodname(name) :> method) @@ methods,
                      alt_suffixes, i + 1)

\* The choice of bound method without the refusal of line 416.
PresetKindUnchecked(format_dict) ==
    IF \E i \in 1..Len(format_dict) : format_dict[i].t = "iter"
    THEN "preset_expand"
    ELSE IF \E i \in 1..Len(format_dict) : format_dict[i].t = "call"
    THEN "preset_addtodict_withcalls"
    ELSE "preset_addtodict"

\* The method add_preset_formats picks for the fields of one preset; "" when
\* the fields mix a call with a collection.
PresetKind(format_dict) ==
    LET have_iterable == \E i \in 1..Len(format_dict) : format_dict[i].t = "iter"
        have_callable == \E i \in 1..Len(format_dict) : format_dict[i].t = "call"
    IN  IF have_iterable
        THEN IF have_callable THEN "" ELSE "preset_expand"
        ELSE IF have_callable THEN "preset_addtodict_withcalls"
             ELSE "preset_addtodict"

\* add_preset_formats, from pair i on.  The presets before a refused one stay
\* registered.
RECURSIVE add_preset_formats(_, _, _)
add_preset_formats(methods, preset_formats, i) ==
    IF i > Len(preset_formats)
    THEN [st |-> "ok", v |-> <<>>, methods |-> methods]
    ELSE LET preset_name == preset_formats[i][1]
             format_dict == preset_formats[i][2]
             method == [kind |-> PresetKind(format_dict), kwargs |-> format_dict]
         IN  IF PresetKind(format_dict) = ""
             THEN [st |-> "ValueError", v |-> MsgCallableExpand,
                   methods |-> methods]
             ELSE add_preset_formats((preset_name :> method) @@ methods,
                                     preset_formats, i + 1)

\* The top directories __init__ works with: {'default': ''} when none given.
TopDirectories(top_directories) ==
    IF top_directories = <<>> THEN << <<"default", <<>> >> >>
    ELSE top_directories

\* The selectors __init__ registers: none for a single top directory.
TopdirMethods(tops) ==
    IF Len(tops) = 1 THEN <<>>
    ELSE AsDict([i \in 1..Len(tops) |->
                   <<get_settopdir_methodname(tops[i][1]),
                     [kind |-> "set_topdir", name |-> tops[i][1],
                      value |-> tops[i][2]]>>])

\* PathTemplater(top_directories, alt_suffixes, preset_formats): the new
\* instance, or the exception of a registration.
Construct(top_directories, alt_suffixes, preset_formats) ==
    LET tops    == TopDirectories(top_directories)
        single  == Len(tops) = 1
        alts    == add_alt_suffixes(TopdirMethods(tops), alt_suffixes, 1)
        presets == add_preset_formats(alts.methods, preset_formats, 1)
        f       == [EmptyObject EXCEPT
                      !.topdir_name  = IF single THEN tops[1][1] ELSE NoName,
                      !.topdir_value = IF single THEN tops[1][2] ELSE None,
                      !.methods      = presets.methods]
        iv      == [f |-> f, d |-> <<>>,
                    g |-> [parent |-> 0, sel |-> NoName, created |-> FALSE]]
    IN  IF alts.st # "ok" THEN Throw(alts.st, alts.v, iv)
        ELSE IF presets.st # "ok" THEN Throw(presets.st, presets.v, iv)
        ELSE Return(iv)

(***************************************************************************)
(* The heap and the calls.                                                 *)
(***************************************************************************)
\* Instance x as the operations take it.
View(x) == [f |-> objs[x], d |-> dicts[objs[x].format_dict], g |-> chain[x]]

\* copy.copy in place of copy.deepcopy: the copy holds the dict of x.
ShallowCopyRef(x) == objs[x].format_dict

\* The format dictionary of the copy copy.deepcopy(x) returns: a new one.
DeepCopyRef(x) == Len(dicts) + 1

\* The heap after the call of a derivation on x that had outcome r: an
\* instance returned is a new object, with the format dictionary the copy
\* got and whatever the operation wrote into it.
Store(x, r) ==
    IF r.st = "ok" /\ "strings" \notin DOMAIN r
    THEN /\ objs' = Append(objs,
                       [r.iv.f EXCEPT !.format_dict = DeepCopyRef(x)])
         /\ dicts' = [Append(dicts, dicts[objs[x].format_dict])
                        EXCEPT ![DeepCopyRef(x)] = r.iv.d]
         /\ chain' = Append(chain, [r.iv.g EXCEPT !.parent = x])
    ELSE UNCHANGED <<objs, dicts, chain>>

\* A call op(args) on instance x with outcome r, as the caller sees it.
Derive(x, op, args, r) ==
    /\ Store(x, r)
    /\ last' = [op |-> op, recv |-> x, args |-> args, st |-> r.st, v |-> r.v,
                w |-> r.w,
                new |-> IF r.st = "ok" /\ "strings" \notin DOMAIN r
                        THEN Len(objs) + 1 ELSE 0]

\* A call of a rendering on instance x with outcome r.
Render(x, op, args, r) ==
    /\ last' = [op |-> op, recv |-> x, args |-> args, st |-> r.st, v |-> r.v,
                w |-> FALSE, new |-> 0]
    /\ UNCHANGED <<objs, dicts, chain>>

\* The state after PathTemplater(top_directories, alt_suffixes,
\* preset_formats) returned instance 1.
Constructed(top_directories, alt_suffixes, preset_formats) ==
    LET r == Construct(top_directories, alt_suffixes, preset_formats)
    IN  /\ r.st = "ok"
        /\ objs = <<[r.iv.f EXCEPT !.format_dict = 1]>>
        /\ dicts = <<r.iv.d>>
        /\ chain = <<r.iv.g>>
        /\ last = [op |-> "__init__", recv |-> 0,
                   args |-> <<top_directories, alt_suffixes, preset_formats>>,
                   st |-> "ok", v |-> <<>>, w |-> FALSE, new |-> 1]

Instances == 1..Len(objs)

\* The derivations, each for the arguments the specification hands them.
Create(X, Paths, Affixes, Dicts) ==
    \E x \in X, path \in Paths, affix \in Affixes, fd \in Dicts :
        Derive(x, "create", <<path, affix, fd>>,
               create(View(x), path, affix, fd))

CreateFromparts(X, Dirs, Templates, Suffixes, Affixes, Dicts) ==
    \E x \in X, dir \in Dirs, tmpl \in Templates, suffix \in Suffixes,
       affix \in Affixes, fd \in Dicts :
        Derive(x, "create_fromparts", <<dir, tmpl, suffix, affix, fd>>,
               create_fromparts(View(x), dir, tmpl, suffix, affix, fd))

NewDirectory(X, Dirs) ==
    \E x \in X, dir \in Dirs :
        Derive(x, "new_directory", <<dir>>, new_directory(View(x), dir))

NewTemplate(X, Templates) ==
    \E x \in X, tmpl \in Templates :
        Derive(x, "new_template", <<tmpl>>, new_template(View(x), tmpl))

NewAffix(X, Affixes) ==
    \E x \in X, affix \in Affixes :
        Derive(x, "new_affix", <<affix>>, new_affix(View(x), affix))

RemoveAffix(X) ==
    \E x \in X : Derive(x, "remove_affix", <<>>, remove_affix(View(x)))

ApplyAffix(X) ==
    \E x \in X : Derive(x, "apply_affix", <<>>, apply_affix(View(x)))

NewSuffix(X, Suffixes) ==
    \E x \in X, suffix \in Suffixes :
        Derive(x, "new_suffix", <<suffix>>, new_suffix(View(x), suffix))

NoSuffix(X) ==
    \E x \in X : Derive(x, "no_suffix", <<>>, no_suffix(View(x)))

ResetAltsuffix(X) ==
    \E x \in X : Derive(x, "reset_altsuffix", <<>>, reset_altsuffix(View(x)))

AddToDict(X, Kwargs) ==
    \E x \in X, kwargs \in Kwargs :
        Derive(x, "add_to_dict", <<kwargs>>, add_to_dict(View(x), kwargs))

ClearDict(X) ==
    \E x \in X : Derive(x, "clear_dict", <<>>, clear_dict(View(x)))

ApplyFormat(X, Kwargs) ==
    \E x \in X, kwargs \in Kwargs :
        Derive(x, "apply_format", <<kwargs>>, apply_format(View(x), kwargs))

\* A bound method that stays bound to the instance the constructor
\* registered it on.
bound_method_of_first(instance) == 1

\* The instance the shortcut attributes of an instance are bound to:
\* copy.deepcopy copies a bound method as a method bound to the copy.
bound_method(instance) == instance

\* The call of a registered shortcut: x.<m>().
Shortcut(X, Names) ==
    \E x \in X :
        \E m \in DOMAIN objs[x].methods \cap Names :
            Derive(x, m, <<>>, Invoke(View(bound_method(x)), m))

\* The renderings.
Use(X) == \E x \in X : Render(x, "use", <<>>, use(View(x)))

Format(X, Kwargs) ==
    \E x \in X, kwargs \in Kwargs :
        Render(x, "format", <<kwargs>>, format(View(x), kwargs))

Pformat(X, Kwargs) ==
    \E x \in X, kwargs \in Kwargs :
        Render(x, "pformat", <<kwargs>>, pformat(View(x), kwargs))

Expand(X, Combinators, Partials, ValueSets) ==
    \E x \in X, combinator \in Combinators, partial \in Partials,
       kwargs \in ValueSets :
        Render(x, "expand", <<combinator, partial, kwargs>>,
               expand(View(x), combinator, partial, kwargs))

(***************************************************************************)
(* The derivation model: an instance is constructed, and any operation is  *)
(* called on any instance there is, until MaxObjs instances exist.         *)
(***************************************************************************)
MaxObjs == 3

\* How the constructor is called: top directories, alternate suffixes and
\* preset formats as in the examples of the class, with short values.
TwoTops == << <<"foobar", <<"x">> >>, <<"boobar", <<"y">> >> >>

AltSuffixes == << <<"boobar", <<".", "b">> >>, <<"tar", <<"+", ".", "z">> >> >>

PresetFormats ==
    << <<"cat", <<Scalar(<<"a">>, <<"c">>)>> >>,
       <<"cat_tar_in_foobar",
         <<Scalar(<<"a">>, <<"c">>), CallSpec("foobardir", <<>>),
           CallSpec("tarfile", <<>>)>> >>,
       <<"all_animals", <<Iter(<<"a">>, << <<"c">>, <<"d">> >>)>> >> >>

\* The arguments the operations are called with.
NoKwargs == <<>>

Kw(key, value) == <<key>> :> <<value>>

SomePaths == { <<"d", "/", "f", ".", "t">>, <<"{", "a", "}", ".", "t">> }

SomeDirs == { PyStr(<<"e">>) }

SomeTemplates == { <<"{", "a", "}", "g">> }

SomeSuffixes == { <<".", "u">> }

SomeAffixes == { <<"_", "{", "b", "}">> }

SomeKwargs == { NoKwargs, Kw("a", "v") }

Init ==
    \E top_directories \in {<<>>, TwoTops} :
        Constructed(top_directories, AltSuffixes, PresetFormats)

Room == IF Len(objs) < MaxObjs THEN Instances ELSE {}

Next ==
    \/ Create(Room, SomePaths, {<<>>}, SomeKwargs)
    \/ CreateFromparts(Room, SomeDirs, SomeTemplates, SomeSuffixes,
                       SomeAffixes, {NoKwargs})
    \/ NewDirectory(Room, SomeDirs)
    \/ NewTemplate(Room, SomeTemplates)
    \/ NewAffix(Room, SomeAffixes)
    \/ RemoveAffix(Room)
    \/ ApplyAffix(Room)
    \/ NewSuffix(Room, SomeSuffixes)
    \/ NoSuffix(Room)
    \/ ResetAltsuffix(Room)
    \/ AddToDict(Room, SomeKwargs)
    \/ ClearDict(Room)
    \/ ApplyFormat(Room, SomeKwargs)
    \/ Shortcut(Room, STRING)
    \/ Use(Instances)

Spec == Init /\ [][Next]_vars

C10_FileShortcut ==
    (/\ last.recv # 0
     /\ last.op \in DOMAIN objs[last.recv].methods
     /\ objs[last.recv].methods[last.op].kind = "set_altsuffix")
    => LET x   == objs[last.recv]
           c   == x.methods[last.op]
           sel == get_settopdir_methodname(c.name)
           n   == objs[last.new]
       IN  /\ last.st = "ok"
           /\ last.new # 0
           /\ n.altsuffix_name = c.name
           /\ n.altsuffix_value = c.value
           /\ n.altsuffix_append = c.append
           /\ IF sel \in DOMAIN x.methods /\ x.topdir_name # c.name
              THEN /\ n.topdir_name = c.name
                   /\ n.topdir_value = x.methods[sel].value
              ELSE /\ n.topdir_name = x.topdir_name
                   /\ n.topdir_value = x.topdir_value

\* The same for the calls on an instance that does not have the alternate
\* suffix of the shortcut set already.
C10_FirstFileShortcut ==
    (/\ last.recv # 0
     /\ last.op \in DOMAIN objs[last.recv].methods
     /\ objs[last.recv].methods[last.op].kind = "set_altsuffix"
     /\ objs[last.recv].altsuffix_name
            = objs[last.recv].methods[last.op].name)
    \/ C10_FileShortcut

(***************************************************************************)
(* The rendering model: an instance is constructed, create is called once  *)
(* with a path that holds one of the kinds of placeholder there are, a top *)
(* directory may be selected, and every rendering is called on every       *)
(* instance.                                                               *)
(***************************************************************************)
RenderPaths ==
    { <<"d", "/", "{", "a", "}", "{", "b", "}", ".", "t">>,
      <<"{", "a", "[", "0", "]", "}", ".", "t">>,
      <<"{", "c", "[", "k", "]", "}", ".", "t">>,
      <<"{", "a", ":", "s", "}", ".", "t">>,
      <<"f", ".", "t">> }

RenderKwargs == { NoKwargs, Kw("a", "w"), Kw("b", "y") }

\* The values expand takes for a keyword: a list, or a single string.
List(items) == [t |-> "list", s |-> <<>>, items |-> items]

Str(s) == [t |-> "str", s |-> s, items |-> <<>>]

ValueSets ==
    { <<>>,
      << <<<<"a">>, List(<< <<"v">>, <<"w">> >>)>>,
         <<<<"b">>, List(<< <<"x">>, <<"y">>, <<"z">> >>)>> >>,
      << <<<<"a">>, Str(<<"v", "w">>)>>,
         <<<<"b">>, List(<< <<"x">>, <<"y">> >>)>> >>,
      << <<<<"a">>, List(<<>>)>> >> }

\* create is called once.
Fresh == IF \E y \in Instances : chain[y].created THEN {} ELSE Room

NextRender ==
    \/ Create(Fresh, RenderPaths, {<<>>}, {NoKwargs, Kw("a", "v")})
    \/ Shortcut(Room, {"foobardir"})
    \/ Use(Instances)
    \/ Format(Instances, RenderKwargs)
    \/ Pformat(Instances, RenderKwargs)
    \/ Expand(Instances, {"product", "zip"}, BOOLEAN, ValueSets)

SpecRender == Init /\ [][NextRender]_vars

(***************************************************************************)
(* Properties of the renderings.                                           *)
(***************************************************************************)
Renderings == {"use", "format", "pformat", "expand"}

\* C2: a rendering called on an instance that is not initialized raises the
\* ValueError "PathTemplater not fully initialized", whatever its arguments.
C2_RenderingNeedsInitialized ==
    (last.op \in Renderings /\ ~is_initialized(objs[last.recv]))
    => (last.st = "ValueError" /\ last.v = MsgNotInitialized)

\* C5: use() on an initialized instance returns the path as it is written
\* when its mapping binds none of the names in the path's placeholders,
\* whatever their form, and what the substitution of all of them gives when
\* it binds them all.
C5_UnboundPlaceholdersKept ==
    (last.op = "use" /\ is_initialized(objs[last.recv]))
    => LET f     == objs[last.recv]
           d     == dicts[f.format_dict]
           path  == UseTemplate(f)
           names == UsedItems(path.v)
       IN  path.st = "ok"
           => /\ names \cap DOMAIN d = {}
                    => (last.st = "ok" /\ last.v = path.v)
              /\ names \subseteq DOMAIN d
                    => /\ last.st = FullFormat(path.v, d).st
                       /\ last.v = FullFormat(path.v, d).v

\* C6: format(**subs) on an initialized instance returns a path without
\* placeholders when each name in a placeholder of the path is bound in the
\* instance's mapping or in subs, and raises KeyError with the name of the
\* leftmost placeholder that is bound in neither otherwise.  (The names of
\* the paths rendered here are one character long.)
C6_FormatOrMissingKey ==
    (last.op = "format" /\ is_initialized(objs[last.recv]))
    => LET f       == objs[last.recv]
           path    == UseTemplate(f).v
           bound   == DOMAIN dicts[f.format_dict] \cup DOMAIN last.args[1]
           missing == {i \in 1..Len(path) - 1 :
                          path[i] = "{" /\ <<path[i + 1]>> \notin bound}
           first   == CHOOSE i \in missing : \A j \in missing : i <= j
       IN  IF missing = {}
           THEN last.st = "ok" /\ Find(last.v, "{", 1) = 0
           ELSE last.st = "KeyError" /\ last.v = <<path[first + 1]>>

\* The number of values expand takes for a keyword.
SizeOf(value) == IF value.t = "list" THEN Len(value.items) ELSE 1

\* The number of combinations of the values of the keywords after the j-th.
RECURSIVE StrideOf(_, _)
StrideOf(kwargs, j) ==
    IF j >= Len(kwargs) THEN 1
    ELSE SizeOf(kwargs[j + 1][2]) * StrideOf(kwargs, j + 1)

\* C7: expand with itertools.product returns one string for each element
\* of the cartesian product of the value sets (a str counts as a set of
\* one), the last keyword varying fastest; the i-th string is what format
\* returns for the i-th combination, or pformat when partial is set.  When
\* one of these raises, so does expand.
C7_ExpandIsProduct ==
    (last.op = "expand" /\ last.args[1] = "product")
    => LET x       == View(last.recv)
           partial == last.args[2]
           kwargs  == last.args[3]
           count   == StrideOf(kwargs, 0)
           index(i, j) ==
               (((i - 1) \div StrideOf(kwargs, j)) % SizeOf(kwargs[j][2])) + 1
           value(i, j) ==
               IF kwargs[j][2].t = "list"
               THEN kwargs[j][2].items[index(i, j)]
               ELSE kwargs[j][2].s
           combination(i) ==
               [key \in {kwargs[j][1] : j \in 1..Len(kwargs)} |->
                   value(i, CHOOSE j \in 1..Len(kwargs) : kwargs[j][1] = key)]
           each(i) ==
               IF partial THEN pformat(x, combination(i))
               ELSE format(x, combination(i))
       IN  IF \A i \in 1..count : each(i).st = "ok"
           THEN /\ last.st = "ok"
                /\ Len(last.v) = count
                /\ \A i \in 1..count : last.v[i] = each(i).v
           ELSE last.st # "ok"

\* expand returned the six paths of a 2 x 3 product, all different.
C7_Witness ==
    /\ last.op = "expand"
    /\ last.args[1] = "product"
    /\ last.st = "ok"
    /\ Len(last.v) = 6
    /\ \A i, j \in 1..6 : i # j => last.v[i] # last.v[j]

(***************************************************************************)
(* The round trip: PathTemplater() is constructed, create is called once   *)
(* with any string of up to MaxLen characters out of a letter, the dot and *)
(* the slash, and use is called.                                           *)
(***************************************************************************)
MaxLen == 6

PathStrings == UNION { [1..n -> {"a", ".", "/"}] : n \in 1..MaxLen }

InitDefault == Constructed(<<>>, AltSuffixes, PresetFormats)

NextRoundTrip ==
    \/ Create(Fresh, PathStrings, {<<>>}, {NoKwargs})
    \/ Use(Instances)

SpecRoundTrip == InitDefault /\ [][NextRoundTrip]_vars

\* C4: use() called on the instance that create(path) just returned, with
\* the default top directory and no alternate suffix, returns path, for a
\* path that pathlib writes the way it is given.
C4_RoundTrip ==
    [][(/\ last.op = "create"
        /\ last.new # 0
        /\ last.args[1] = PathStr(ParsePath(last.args[1]))
        /\ last'.op = "use"
        /\ last'.recv = last.new)
       => (last'.st = "ok" /\ last'.v = last.args[1])]_vars

(***************************************************************************)
(* The suffix model: PathTemplater() is constructed with a replacing and   *)
(* an appending alternate suffix, create is called once, the suffix is     *)
(* replaced or cleared, the alternate suffix set or reset, and use is      *)
(* called, until MaxInstances instances exist.                             *)
(***************************************************************************)
MaxInstances == 4

Deep == IF Len(objs) < MaxInstances THEN Instances ELSE {}

FreshDeep == Fresh \cup {x \in Deep : \A y \in Instances : ~chain[y].created}

NextSuffix ==
    \/ Create(FreshDeep, {<<"d", "/", "f", ".", "t">>}, {<<>>}, {NoKwargs})
    \/ NewSuffix(Deep, SomeSuffixes)
    \/ NoSuffix(Deep)
    \/ Shortcut(Deep, {"boobarfile", "tarfile"})
    \/ ResetAltsuffix(Deep)
    \/ Use(Instances)

SpecSuffix == InitDefault /\ [][NextSuffix]_vars

\* C8: what use() returns for an initialized instance is the path of its
\* directory and its filename followed by: its suffix and then the value of
\* its alternate suffix when that one appends, the value of its alternate
\* suffix alone when it replaces, and its suffix when it has no alternate
\* suffix; a suffix that was cleared is an empty one.  (The filenames
\* rendered here hold no dot.)
C8_EffectiveSuffix ==
    (last.op = "use" /\ is_initialized(objs[last.recv]))
    => LET f    == objs[last.recv]
           base == IF f.suffix = None THEN <<>> ELSE f.suffix
           stem == PathStr(PathJoin(
                       PathJoin(ParsePath(f.topdir_value),
                                ParsePath(f.directory.s)),
                       ParsePath(f.filename_template \o f.filename_affix)))
       IN  /\ last.st = "ok"
           /\ last.v = stem \o (IF f.altsuffix_name = NoName THEN base
                                ELSE IF f.altsuffix_append
                                THEN base \o f.altsuffix_value
                                ELSE f.altsuffix_value)

\* The same for the instances with a suffix that was not cleared.
C8_EffectiveSuffixOfStr ==
    (last.recv # 0 /\ objs[last.recv].suffix = None) \/ C8_EffectiveSuffix

(***************************************************************************)
(* The top directory model: a PathTemplater with two top directories is    *)
(* constructed, the shortcuts and create or create_fromparts (once) are    *)
(* called in any order and use is called, until MaxInstances instances     *)
(* exist.                                                                  *)
(***************************************************************************)
InitTwoTops == Constructed(TwoTops, AltSuffixes, PresetFormats)

NextTopdir ==
    \/ Shortcut(Deep, {"foobardir", "boobardir", "boobarfile", "tarfile",
                       "cat_tar_in_foobar"})
    \/ Create(FreshDeep, SomePaths, {<<>>}, {NoKwargs})
    \/ CreateFromparts(FreshDeep, SomeDirs, SomeTemplates, SomeSuffixes,
                       {<<>>}, {NoKwargs})
    \/ Use(Instances)

SpecTopdir == InitTwoTops /\ [][NextTopdir]_vars

\* C9: with two top directories, use() raises the ValueError of an instance
\* that is not initialized as long as no selector was called on the way to
\* the instance; once a selector and create were called, in either order,
\* the instance is initialized and use() returns a path that starts with
\* the value of the top directory selected last.
C9_TopdirSelected ==
    last.op = "use"
    => LET x     == last.recv
           value == (CHOOSE i \in 1..Len(TwoTops) :
                        TwoTops[i][1] = chain[x].sel)
       IN  /\ chain[x].sel = NoName
                => (last.st = "ValueError" /\ last.v = MsgNotInitialized)
           /\ (chain[x].sel # NoName /\ chain[x].created)
                => /\ is_initialized(objs[x])
                   /\ last.st = "ok"
                   /\ StartsWith(last.v, TwoTops[value][2] \o <<"/">>)

\* use() returned a path under the second top directory for an instance on
\* which the selector was called after create.
C9_Witness ==
    /\ last.op = "use"
    /\ last.st = "ok"
    /\ chain[last.recv].sel = "boobar"
    /\ chain[last.recv].parent # 0
    /\ chain[chain[last.recv].parent].created
    /\ chain[chain[last.recv].parent].sel = NoName
    /\ StartsWith(last.v, <<"y", "/">>)

\* The same for the calls of format on an instance for which use() returns.
C6_WhenUseReturns ==
    (last.op = "format" /\ use(View(last.recv)).st # "ok")
    \/ C6_FormatOrMissingKey


(***************************************************************************)
(* Registration of presets.  add_preset_formats is called on an instance   *)
(* that exists and sets attributes of that instance: it is the one         *)
(* operation here that changes its receiver.                               *)
(***************************************************************************)
AddPresetFormats(X, Presets) ==
    \E x \in X, preset_formats \in Presets :
        LET Registered(r) ==
                /\ objs' = [objs EXCEPT ![x].methods = r.methods]
                /\ last' = [op |-> "add_preset_formats", recv |-> x,
                            args |-> <<preset_formats>>, st |-> r.st,
                            v |-> r.v, w |-> FALSE, new |-> 0]
                /\ UNCHANGED <<dicts, chain>>
        IN  Registered(add_preset_formats(objs[x].methods, preset_formats, 1))

\* The registrations: a plain preset; three presets of which the second mixes
\* a call with a collection under the name of the plain one; two presets
\* with a call that names no operation and two that mix calls and values in
\* different orders.
PresetRegistrations ==
    { << <<"cat", <<Scalar(<<"a">>, <<"c">>)>> >> >>,
      << <<"dog", <<Scalar(<<"a">>, <<"d">>)>> >>,
         <<"cat", <<CallSpec("new_template", << <<"y">> >>),
                    Iter(<<"a">>, << <<"c">>, <<"d">> >>)>> >>,
         <<"emu", <<Scalar(<<"a">>, <<"e">>)>> >> >>,
      << <<"will_fail", <<Scalar(<<"a">>, <<"c">>),
                          CallSpec("zipfile", <<>>)>> >>,
         <<"half_fail", <<CallSpec("new_template", << <<"y">> >>),
                          CallSpec("zipfile", <<>>)>> >>,
         <<"styled", <<Scalar(<<"a">>, <<"c">>),
                       CallSpec("new_template", << <<"{", "a", "}">> >>),
                       CallSpec("apply_format", <<>>),
                       CallSpec("tarfile", <<>>),
                       Scalar(<<"b">>, <<"f">>)>> >>,
         <<"restyled", <<CallSpec("apply_format", <<>>),
                         Scalar(<<"a">>, <<"c">>),
                         CallSpec("new_template", << <<"{", "a", "}">> >>)>> >> >> }

InitPreset == Constructed(TwoTops, AltSuffixes, <<>>)

\* Presets are registered on the latest instance, before it is derived from.
Latest == {x \in Instances : x = Len(objs) /\ x < MaxObjs}

NextPreset ==
    \/ Create(Fresh, {<<"d", "/", "{", "a", "}", ".", "t">>}, {<<>>},
              {NoKwargs})
    \/ AddPresetFormats(Latest, PresetRegistrations)
    \/ Shortcut(Room, STRING)
    \/ Use(Instances)

SpecPreset == InitPreset /\ [][NextPreset]_vars


(***************************************************************************)
(* Properties of the presets.                                              *)
(***************************************************************************)
\* Whether the fields of a preset hold a call together with a collection.
Mixes(fields) ==
    /\ \E i \in 1..Len(fields) : fields[i].t = "call"
    /\ \E i \in 1..Len(fields) : fields[i].t = "iter"

\* C11: a step that registers presets of which one mixes a call with a
\* collection ends in the ValueError of the mix, and leaves the shortcut of
\* that name as it was: absent if it was absent, the same if there was one;
\* the presets listed before it are registered, those after it are not
\* touched.  A registration without such a preset registers every preset.
C11_MixedPresetRefused ==
    [][last'.op = "add_preset_formats" =>
        LET x       == last'.recv
            presets == last'.args[1]
            mixed   == {i \in 1..Len(presets) : Mixes(presets[i][2])}
            Same(name) ==
                /\ name \in DOMAIN objs'[x].methods
                     <=> name \in DOMAIN objs[x].methods
                /\ name \in DOMAIN objs[x].methods
                     => objs'[x].methods[name] = objs[x].methods[name]
            Set(i) ==
                /\ presets[i][1] \in DOMAIN objs'[x].methods
                /\ objs'[x].methods[presets[i][1]].kwargs = presets[i][2]
        IN  IF mixed = {}
            THEN /\ last'.st = "ok"
                 /\ \A i \in 1..Len(presets) : Set(i)
            ELSE /\ last'.st = "ValueError"
                 /\ last'.v = MsgCallableExpand
                 /\ \A i \in 1..Len(presets) :
                      IF \E j \in mixed : j <= i
                      THEN Same(presets[i][1])
                      ELSE Set(i)]_vars

\* A registration was refused at a preset named as a shortcut that is
\* registered, after the preset before it was registered.
C11_Witness ==
    /\ last.op = "add_preset_formats"
    /\ last.st = "ValueError"
    /\ "dog" \in DOMAIN objs[last.recv].methods
    /\ "cat" \in DOMAIN objs[last.recv].methods
    /\ objs[last.recv].methods["cat"].kind = "preset_addtodict"
    /\ "emu" \notin DOMAIN objs[last.recv].methods


\* The names the calls of a preset's fields look up, in the order of the
\* fields.
CallNames(fields) ==
    LET calls == SelectSeq(fields, LAMBDA e : e.t = "call")
    IN  [i \in 1..Len(calls) |-> calls[i].param]

\* Whether instance x has an attribute of that name: a shortcut registered
\* on it or a method of the class.
HasAttribute(x, name) ==
    \/ name \in DOMAIN objs[x].methods
    \/ name \in DOMAIN ClassMethods
    \/ name \in OtherMethods

\* C12: a step that registers a preset with a call of a name the instance
\* has no attribute of ends without error, with the shortcut registered; a
\* step that calls such a shortcut returns no instance and changes none,
\* and when the first call of the preset is the one of that name it ends in
\* the ValueError whose message ends with the name.
C12_MissingOperationAtInvocation ==
    [][/\ last'.op = "add_preset_formats" =>
            \A i \in 1..Len(last'.args[1]) :
                LET preset == last'.args[1][i]
                IN  (/\ \A j \in 1..i : ~Mixes(last'.args[1][j][2])
                     /\ \E k \in 1..Len(CallNames(preset[2])) :
                          ~HasAttribute(last'.recv, CallNames(preset[2])[k]))
                    => /\ preset[1] \in DOMAIN objs'[last'.recv].methods
                       /\ Len(last'.args[1]) = i => last'.st = "ok"
       /\ (/\ last'.op \in DOMAIN objs[last'.recv].methods
           /\ objs[last'.recv].methods[last'.op].kind
                = "preset_addtodict_withcalls") =>
            LET x     == last'.recv
                names == CallNames(objs[x].methods[last'.op].kwargs)
            IN  (\E k \in 1..Len(names) : ~HasAttribute(x, names[k]))
                => /\ last'.st # "ok"
                   /\ last'.new = 0
                   /\ UNCHANGED <<objs, dicts, chain>>
                   /\ ~HasAttribute(x, names[1])
                        => /\ last'.st = "ValueError"
                           /\ last'.v = MsgNoFunction \o <<names[1]>>]_vars

\* The shortcut of a preset whose only call names no operation was called
\* on an instance made by create, and ended in the error that names it.
C12_Witness ==
    /\ last.op = "will_fail"
    /\ chain[last.recv].created
    /\ last.st = "ValueError"
    /\ last.v = MsgNoFunction \o <<"zipfile">>
    /\ last.new = 0


\* The calls of a preset's fields from the k-th on, each on the instance the
\* one before returned.
RECURSIVE CallsInOrder(_, _, _)
CallsInOrder(r, calls, k) ==
    IF k > Len(calls) \/ r.st # "ok" THEN r
    ELSE CallsInOrder(CallMethod(r.iv, calls[k].param, calls[k].args),
                      calls, k + 1)

\* C13: an instance returned by the shortcut of a preset with calls and
\* values has the fields and the mapping of the instance that the calls, in
\* the order of the fields, and then add_to_dict with all the values return
\* when they start from the receiver.
C13_CallsThenValues ==
    (/\ last.recv # 0
     /\ last.new # 0
     /\ last.op \in DOMAIN objs[last.recv].methods
     /\ objs[last.recv].methods[last.op].kind = "preset_addtodict_withcalls"
     /\ DOMAIN ScalarsOf(objs[last.recv].methods[last.op].kwargs) # {}) =>
        LET fields == objs[last.recv].methods[last.op].kwargs
            calls  == SelectSeq(fields, LAMBDA e : e.t = "call")
            called == CallsInOrder(Return(View(last.recv)), calls, 1)
            want   == add_to_dict(called.iv, ScalarsOf(fields))
        IN  /\ called.st = "ok"
            /\ want.st = "ok"
            /\ [objs[last.new] EXCEPT !.format_dict = 0]
                 = [want.iv.f EXCEPT !.format_dict = 0]
            /\ dicts[objs[last.new].format_dict] = want.iv.d

\* The shortcut of the preset with a value before and a value after its
\* calls returned an instance, for a receiver that binds the placeholder the
\* calls substitute: the template is substituted with the receiver's value,
\* and the two values of the preset are in the mapping.
C13_Witness ==
    /\ last.op = "styled"
    /\ last.new # 0
    /\ <<"a">> \in DOMAIN dicts[objs[last.recv].format_dict]
    /\ objs[last.new].filename_template = <<"c">>
    /\ objs[last.new].altsuffix_name = "tar"
    /\ DOMAIN dicts[objs[last.new].format_dict] = {<<"a">>, <<"b">>}


(***************************************************************************)
(* Properties of single derivations.                                       *)
(***************************************************************************)
\* C14: the instance clear_dict returned has an empty placeholder mapping,
\* and its other fields are the receiver's.
C14_ClearDictEmptiesMapping ==
    (last.op = "clear_dict" /\ last.new # 0) =>
        /\ dicts[objs[last.new].format_dict] = <<>>
        /\ [objs[last.new] EXCEPT !.format_dict = 0]
             = [objs[last.recv] EXCEPT !.format_dict = 0]


\* Whether the latest call was one of a top-directory selector or an
\* alternate-suffix shortcut on a receiver that has its name in effect.
RepeatsSelection ==
    /\ last.recv # 0
    /\ last.op \in DOMAIN objs[last.recv].methods
    /\ LET c == objs[last.recv].methods[last.op]
       IN  \/ c.kind = "set_topdir" /\ objs[last.recv].topdir_name = c.name
           \/ /\ c.kind = "set_altsuffix"
              /\ objs[last.recv].altsuffix_name = c.name

\* C15: the call of a selector or of an alternate-suffix shortcut whose name
\* is in effect on the receiver warns, raises nothing and returns an
\* instance with the same selection, which renders as the receiver does.
C15_RepeatedShortcutWarns ==
    RepeatsSelection =>
        /\ last.st = "ok"
        /\ last.w
        /\ last.new # 0
        /\ objs[last.new].topdir_name = objs[last.recv].topdir_name
        /\ objs[last.new].topdir_value = objs[last.recv].topdir_value
        /\ objs[last.new].altsuffix_name = objs[last.recv].altsuffix_name
        /\ objs[last.new].altsuffix_value = objs[last.recv].altsuffix_value
        /\ use(View(last.new)) = use(View(last.recv))

\* The same for the selectors of top directories alone.
C15_RepeatedSelectorWarns ==
    (/\ RepeatsSelection
     /\ objs[last.recv].methods[last.op].kind = "set_altsuffix")
    \/ C15_RepeatedShortcutWarns


(***************************************************************************)
(* The model of the two states: an instance is constructed, create is      *)
(* called once, and the derivations that write a field the test of         *)
(* _is_initialized reads are called with a value and with None.            *)
(***************************************************************************)
NextInitialized ==
    \/ Create(Fresh, {<<"d", "/", "f", ".", "t">>}, {<<>>}, {NoKwargs})
    \/ NewDirectory(Room, SomeDirs \cup {PyNone})
    \/ NewTemplate(Room, SomeTemplates \cup {None})
    \/ NewSuffix(Room, SomeSuffixes)
    \/ NoSuffix(Room)
    \/ ClearDict(Room)
    \/ ResetAltsuffix(Room)
    \/ Shortcut(Room, STRING)
    \/ Use(Instances)

SpecInitialized == Init /\ [][NextInitialized]_vars

\* C16: an instance returned by a call on an initialized instance is
\* initialized, and use() on it does not end in the error of an instance
\* that is not initialized.
C16_InitializedIsTerminal ==
    (/\ last.recv # 0
     /\ last.new # 0
     /\ is_initialized(objs[last.recv])) =>
        /\ is_initialized(objs[last.new])
        /\ ~(/\ use(View(last.new)).st = "ValueError"
             /\ use(View(last.new)).v = MsgNotInitialized)

\* The same for the calls that are not handed None.
C16_TerminalForValues ==
    (last.op = "new_directory" /\ last.args[1] = PyNone)
    \/ (last.op = "new_template" /\ last.args[1] = None)
    \/ C16_InitializedIsTerminal


(***************************************************************************)
(* The filename model: create_fromparts is called once on a default        *)
(* PathTemplater with a filename template and an affix that hold no, one   *)
(* or several dots, an alternate suffix may be set, and use is called.     *)
(***************************************************************************)
FileTemplates ==
    { <<"a">>, <<"a", ".", "b">>, <<"a", ".", "b", ".", "c">>, <<".", "a">> }

FileAffixes == { <<>>, <<".", "e">>, <<"_", "e">> }

NextFilename ==
    \/ CreateFromparts(Fresh, {PyStr(<<"d">>)}, FileTemplates, SomeSuffixes,
                       FileAffixes, {NoKwargs})
    \/ Shortcut(Room, {"boobarfile", "tarfile"})
    \/ ResetAltsuffix(Room)
    \/ Use(Instances)

SpecFilename == InitDefault /\ [][NextFilename]_vars

\* C17: what use() returns for an initialized instance with an effective
\* suffix that is not empty is its directory, then its filename template
\* and affix as they are, then the effective suffix.
C17_FilenameThenSuffix ==
    (/\ last.op = "use"
     /\ is_initialized(objs[last.recv])
     /\ EffectiveSuffix(objs[last.recv]).st = "ok"
     /\ EffectiveSuffix(objs[last.recv]).v # <<>>) =>
        LET f == objs[last.recv]
        IN  /\ last.st = "ok"
            /\ last.v = f.directory.s \o <<"/">> \o f.filename_template
                          \o f.filename_affix \o EffectiveSuffix(f).v

\* The same for the filenames that hold at most one dotted extension.
C17_OneExtensionKept ==
    (/\ last.recv # 0
     /\ is_initialized(objs[last.recv])
     /\ NameSuffixes(objs[last.recv].filename_template
                       \o objs[last.recv].filename_affix)
          # NameSuffix(objs[last.recv].filename_template
                         \o objs[last.recv].filename_affix))
    \/ C17_FilenameThenSuffix


(***************************************************************************)
(* The apply_format model: create is called once on a default              *)
(* PathTemplater with a path and an affix that hold the kinds of           *)
(* placeholder there are and with an entry no placeholder names, then      *)
(* apply_format, add_to_dict and use are called.                           *)
(***************************************************************************)
NextApply ==
    \/ Create(Fresh, RenderPaths, {<<>>, <<"_", "{", "b", "}">>},
              {Kw("e", "w")})
    \/ AddToDict(Room, {Kw("b", "y")})
    \/ ApplyFormat(Room, RenderKwargs)
    \/ Use(Instances)

SpecApply == InitDefault /\ [][NextApply]_vars

\* The mapping that binds each of the names to the same value.
AllBound(names, value) == [name \in names |-> value]

\* C18: apply_format(**subs) on an instance with a filename template
\* returns an instance.  With merged the receiver's mapping updated with
\* subs: its template and its affix are the receiver's when merged binds
\* none of their names, and the substitution of merged when it binds them
\* all; in every case they name the names merged does not bind, and give
\* what the receiver's give once those are bound too.  Its mapping is merged
\* without the names the receiver's template or affix name.  Its other
\* fields are the receiver's.
C18_ApplyFormatSubstitutes ==
    (last.op = "apply_format"
     /\ objs[last.recv].filename_template # None) =>
        LET f      == objs[last.recv]
            merged == Update(dicts[f.format_dict], last.args[1])
            Part(old, new) ==
                LET names == UsedItems(old)
                    rest  == AllBound(names \ DOMAIN merged, <<"q">>)
                IN  /\ names \cap DOMAIN merged = {} => new = old
                    /\ names \subseteq DOMAIN merged
                         => new = FullFormat(old, merged).v
                    /\ UsedItems(new) = names \ DOMAIN merged
                    /\ FullFormat(new, rest) = FullFormat(old, Update(merged, rest))
        IN  /\ last.st = "ok"
            /\ last.new # 0
            /\ Part(f.filename_template, objs[last.new].filename_template)
            /\ Part(f.filename_affix, objs[last.new].filename_affix)
            /\ dicts[objs[last.new].format_dict]
                 = Pop(merged, UsedItems(f.filename_template)
                                 \cup UsedItems(f.filename_affix))
            /\ [objs[last.new] EXCEPT !.format_dict = 0,
                                      !.filename_template = <<>>,
                                      !.filename_affix = <<>>]
                 = [f EXCEPT !.format_dict = 0,
                             !.filename_template = <<>>,
                             !.filename_affix = <<>>]


\* The same for the calls that leave no placeholder with a numeric index
\* unbound.
C18_WhenIndexedNameBound ==
    (/\ last.op = "apply_format"
     /\ objs[last.recv].filename_template = <<"{", "a", "[", "0", "]", "}">>
     /\ <<"a">> \notin DOMAIN dicts[objs[last.recv].format_dict]
     /\ <<"a">> \notin DOMAIN last.args[1])
    \/ C18_ApplyFormatSubstitutes


\* C19: use() on an initialized instance whose suffix no_suffix() cleared
\* raises nothing and returns the path of its directory and its filename,
\* followed by the value of the alternate suffix when one is in effect,
\* appending or not, and by nothing otherwise.
C19_ClearedSuffixIsEmpty ==
    (/\ last.op = "use"
     /\ is_initialized(objs[last.recv])
     /\ objs[last.recv].suffix = None) =>
        LET f == objs[last.recv]
        IN  /\ last.st = "ok"
            /\ last.v = f.directory.s \o <<"/">> \o f.filename_template
                          \o f.filename_affix
                          \o (IF f.altsuffix_name = NoName THEN <<>>
                              ELSE f.altsuffix_value)

\* The same for the instances without an appending alternate suffix.
C19_ClearedSuffixAlone ==
    (/\ last.recv # 0
     /\ objs[last.recv].altsuffix_name # NoName
     /\ objs[last.recv].altsuffix_append)
    \/ C19_ClearedSuffixIsEmpty


(***************************************************************************)
(* The model of the shortcuts on derived instances: a PathTemplater with   *)
(* two top directories, alternate suffixes and presets is constructed,     *)
(* create is called once, and derivations and shortcuts are called on any  *)
(* instance, until MaxInstances instances exist.                           *)
(***************************************************************************)
NextShortcut ==
    \/ Create(FreshDeep, {<<"d", "/", "{", "a", "}", ".", "t">>}, {<<>>},
              {NoKwargs})
    \/ NewDirectory(Deep, SomeDirs)
    \/ NewSuffix(Deep, SomeSuffixes)
    \/ AddToDict(Deep, {Kw("k", "v")})
    \/ Shortcut(Deep, STRING)
    \/ Use(Instances)

SpecShortcut == InitTwoTops /\ [][NextShortcut]_vars

\* The fields a call of the shortcut named m of instance x may write.
TopdirFields == {"topdir_name", "topdir_value"}

AltsuffixFields ==
    {"altsuffix_name", "altsuffix_value", "altsuffix_append"} \cup TopdirFields

FieldsSet(x, m) ==
    LET Of(c) ==
            CASE c.kind = "set_topdir" -> TopdirFields
              [] c.kind = "set_altsuffix" -> AltsuffixFields
              [] OTHER -> {}
        c == objs[x].methods[m]
    IN  IF c.kind = "preset_addtodict_withcalls"
        THEN UNION {Of(objs[x].methods[n]) :
                      n \in {c.kwargs[i].param :
                               i \in {j \in 1..Len(c.kwargs) :
                                        c.kwargs[j].t = "call"}}}
        ELSE Of(c)

\* C20: every instance has the shortcuts of the instance it was derived
\* from.  A step that calls a shortcut on an instance changes no instance
\* there is; the instance it returns has the receiver's fields but for
\* those the shortcut writes, and the receiver's mapping with the values of
\* the preset; the strings an expanding preset returns are those of the
\* receiver's expand.
C20_ShortcutsOnDerived ==
    [][/\ \A y \in 1..Len(objs') :
            chain'[y].parent # 0
                => objs'[y].methods = objs'[chain'[y].parent].methods
       /\ (/\ last'.recv # 0
           /\ last'.op \in DOMAIN objs[last'.recv].methods) =>
            LET y == last'.recv
                c == objs[y].methods[last'.op]
                z == last'.new
            IN  /\ \A x \in Instances :
                     /\ objs'[x] = objs[x]
                     /\ dicts'[objs'[x].format_dict]
                          = dicts[objs[x].format_dict]
                /\ z # 0 =>
                     /\ \A fld \in DOMAIN objs[y]
                                     \ (FieldsSet(y, last'.op)
                                          \cup {"format_dict"}) :
                          objs'[z][fld] = objs[y][fld]
                     /\ dicts'[objs'[z].format_dict]
                          = Update(dicts[objs[y].format_dict],
                                   IF c.kind = "set_topdir"
                                      \/ c.kind = "set_altsuffix"
                                   THEN <<>> ELSE ScalarsOf(c.kwargs))
                     /\ c.kind = "set_topdir" =>
                          /\ objs'[z].topdir_name = c.name
                          /\ objs'[z].topdir_value = c.value
                     /\ c.kind = "set_altsuffix" =>
                          objs'[z].altsuffix_name = c.name
                /\ c.kind = "preset_expand" =>
                     /\ z = 0
                     /\ last'.st = expand(View(y), "product", TRUE,
                                          ValueSetsOf(c.kwargs)).st
                     /\ last'.v = expand(View(y), "product", TRUE,
                                         ValueSetsOf(c.kwargs)).v]_vars

\* An appending alternate suffix was set on an instance derived, by a
\* selector and then new_directory, from the instance constructed: the
\* result has the top directory selected and the directory set on the way,
\* which the instance constructed does not have.
C20_Witness ==
    /\ last.op = "tarfile"
    /\ last.new # 0
    /\ objs[last.new].topdir_name = "foobar"
    /\ objs[last.new].directory = PyStr(<<"e">>)
    /\ objs[last.new].altsuffix_name = "tar"
    /\ objs[1].topdir_name = NoName
    /\ chain[chain[last.recv].parent].sel = "foobar"



(***************************************************************************)
(* The apply_format and pformat model: PathTemplater is constructed with   *)
(* the default top directory or with a single one whose value holds a      *)
(* placeholder, create_fromparts is called once with a directory, a        *)
(* filename template, a suffix and an affix that share placeholder names   *)
(* or not, and apply_format, pformat and use are called.                   *)
(***************************************************************************)
PlaceholderTop == << <<"default", <<"{", "a", "}">> >> >>

ApplyDirs ==
    { PyStr(<<"d">>), PyStr(<<"{", "a", "}">>), PyStr(<<"{", "b", "}">>) }

ApplyTemplates ==
    { <<"f", "_", "{", "a", "}">>,
      <<"{", "{", "a", "}", "}">>,
      <<"{", "a", "[", "0", "]", "}">> }

ApplySuffixes == { <<".", "t">>, <<".", "{", "a", "}">> }

ApplyAffixes == { <<>>, <<"_", "{", "b", "}">> }

\* The substitutions: none, one name, and a value that holds a placeholder.
ApplyKwargs ==
    { NoKwargs, Kw("a", "w"), Kw("b", "y"),
      (<<"a">> :> <<"{", "b", "}">>) @@ Kw("b", "y") }

InitApplyUse ==
    \E top_directories \in {<<>>, PlaceholderTop} :
        Constructed(top_directories, AltSuffixes, <<>>)

NextApplyUse ==
    \/ CreateFromparts(Fresh, ApplyDirs, ApplyTemplates, ApplySuffixes,
                       ApplyAffixes, {NoKwargs, Kw("a", "s")})
    \/ ApplyFormat(Room, ApplyKwargs)
    \/ Pformat(Instances, ApplyKwargs)
    \/ Use(Instances)

SpecApplyUse == InitApplyUse /\ [][NextApplyUse]_vars

\* use() is called on the instance the apply_format call before it returned.
UseOfApplied ==
    /\ last.op = "apply_format"
    /\ last.new # 0
    /\ is_initialized(objs[last.recv])
    /\ last'.op = "use"
    /\ last'.recv = last.new

\* What that use() gives is what pformat gives on the receiver of
\* apply_format for the same substitutions.
SameAsPformat ==
    LET Same(r) == last'.st = r.st /\ last'.v = r.v
    IN  Same(pformat(View(last.recv), last.args[1]))

RECURSIVE SimpleTemplate(_)
SimpleTemplate(s) ==
    IF s = <<>> THEN TRUE
    ELSE IF s[1] = "}" THEN FALSE
    ELSE IF s[1] # "{" THEN SimpleTemplate(Tail(s))
    ELSE LET t == Tail(s)
             Closed(e) ==
                 /\ e # 0
                 /\ \A i \in 1..(e - 1) : t[i] \notin {"{", ".", "/"}
                 /\ SimpleTemplate(From(t, e + 1))
         IN  Closed(Find(t, "}", 1))

\* The names the parts of f that apply_format leaves alone refer to.
OutsideItems(f) ==
    UsedItems(f.topdir_value) \cup UsedItems(f.directory.s)
      \cup UsedItems(f.suffix) \cup UsedItems(f.altsuffix_value)

\* A value that is not empty and holds no brace, no dot and no slash.
PlainValue(value) ==
    /\ value # <<>>
    /\ \A i \in DOMAIN value : value[i] \notin {"{", "}", ".", "/"}

\* The filename template and the affix of f are simple, none of their names
\* occurs in the other parts of f, and merged binds them to plain values.
NamesApart(f, merged) ==
    LET Apart(used) ==
            /\ used \cap OutsideItems(f) = {}
            /\ \A name \in used \cap DOMAIN merged : PlainValue(merged[name])
    IN  /\ SimpleTemplate(f.filename_template)
        /\ SimpleTemplate(f.filename_affix)
        /\ Apart(UsedItems(f.filename_template)
                   \cup UsedItems(f.filename_affix))

\* apply_format raised what pformat raises on its receiver for the same
\* substitutions.
SameFailure == pformat(View(last.recv), last.args[1]).st = last.st

C21_WhenSimpleAndPlain ==
    [][(/\ UseOfApplied
        /\ LET f == objs[last.recv]
           IN  NamesApart([f EXCEPT !.topdir_value = <<>>,
                                    !.directory = PyStr(<<>>),
                                    !.suffix = <<>>,
                                    !.altsuffix_value = <<>>],
                          Update(dicts[f.format_dict], last.args[1])))
       => SameAsPformat]_vars

=============================================================================
